---- MODULE Spec2Model ----
(***************************************************************************)
(* Control loops of the predictive-coding transformer repository:          *)
(*   generate_text / text_generation / main   (src/generate_text.py)       *)
(*   train                                     (src/training.py)           *)
(*   reset_pc_modules                          (src/utils/model_utils.py)  *)
(*   GPTConfig                                 (src/predictive_coding/config.py) *)
(* The model object (PCTransformer / PCLayer) is not part of the sources;   *)
(* its forward pass and its clear_errors / clear_energy / get_energy        *)
(* operations are modelled from their documented contract.                  *)
(***************************************************************************)
EXTENDS Integers, Sequences, FiniteSets, TLC

\* ------------------------------------------------------------------ bounds
MaxPrompt == 3          \* longest prompt, in tokens
MaxNewTokens == 2       \* largest max_new_tokens
MaxBlockSize == 2       \* largest config.block_size
MaxBatches == 2         \* longest dataloader, in batches
MaxLoss == 1            \* largest cross-entropy value of a batch
MaxModules == 2         \* largest module tree handed to reset_pc_modules alone
MaxResetCalls == 2      \* most successive calls of reset_pc_modules
MaxWorld == 3           \* largest number of cooperating processes
MaxGenWork == 2         \* longest generation phase of the leader, in steps

\* the vocabulary, and the energies a layer can settle at
Tokens == {0, 1}
EnergyLevels == {0, 1}

\* Python's None is the empty tuple, a value v is <<v>>.
None == <<>>
Some(v) == <<v>>

\* ------------------------------------------------------------- variables
VARIABLES
    config,      \* GPTConfig: block_size, eos_token_id
    model,       \* the module tree: model.modules(), a sequence of modules
    pc,          \* position of the single-threaded control flow
    gen,         \* locals of generate_text and of its caller text_generation
    trn,         \* locals of train
    obs,         \* history of the calls made on the model (forward / reset)
    rst,         \* reset_pc_modules called on its own: call count and snapshots
    ddp,         \* run mode of the generation script: use_ddp and world size
    proc         \* per process of the generation script: position and flags

vars == <<config, model, pc, gen, trn, obs, rst, ddp, proc>>

\* ------------------------------------------------------------------ config
\* GPTConfig(block_size, eos_token_id): eos_token_id defaults to None.
GPTConfig(block_size, eos_token_id) ==
    [block_size |-> block_size, eos_token_id |-> eos_token_id]

Configs ==
    { GPTConfig(b, e) : b \in 1..MaxBlockSize,
                        e \in {None} \cup { Some(t) : t \in Tokens } }

\* ------------------------------------------------------------- module tree
\* One submodule: what it is, which operations it exposes, and its state.
\*   errors: 0 is cleared, 1 is holding prediction errors
\*   energy: None is cleared, Some(v) is a settled energy
Module(isPC, getE, clrErr, clrEn, errors, energy) ==
    [ isPCLayer        |-> isPC,
      has_get_energy   |-> getE,
      has_clear_errors |-> clrErr,
      has_clear_energy |-> clrEn,
      errors           |-> errors,
      energy           |-> energy,
      weights          |-> "w" ]

PCLayerModule == Module(TRUE, TRUE, TRUE, TRUE, 0, None)
\* a predictive-coding layer built without an energy accessor
PCLayerNoEnergy == Module(TRUE, FALSE, TRUE, TRUE, 0, None)
\* an ordinary layer (embedding, linear, dropout): no state, no operations
PlainModule == Module(FALSE, FALSE, FALSE, FALSE, 0, None)
\* a container that reports an energy without being a PCLayer
EnergyProbe == Module(FALSE, TRUE, TRUE, TRUE, 0, None)

ModelTrees ==
    { <<PlainModule, PCLayerModule, PCLayerModule>>,
      <<PlainModule>>,
      <<EnergyProbe, PCLayerNoEnergy>> }

EnergyValues == {None} \cup { Some(v) : v \in EnergyLevels }

HoldsState(mod) == mod.isPCLayer \/ mod.has_get_energy

\* what a forward pass can leave behind on the tree `m`
ForwardOutcomes(m) ==
    { e \in [DOMAIN m -> EnergyValues] :
        \A i \in DOMAIN m : ~m[i].has_get_energy => e[i] = None }

\* model(target, input): every stateful layer ends holding errors and the
\* energy it settled at (None when it had nothing to settle).
Forward(m, e) ==
    [ i \in DOMAIN m |->
        IF HoldsState(m[i])
        THEN [m[i] EXCEPT !.errors = 1, !.energy = e[i]]
        ELSE m[i] ]

clear_errors(mod) == [mod EXCEPT !.errors = 0]
clear_energy(mod) == [mod EXCEPT !.energy = None]

ModuleClear(mod) == mod.errors = 0 /\ mod.energy = None
ModelClear(m) == \A i \in DOMAIN m : ModuleClear(m[i])

\* ------------------------------------------------------- reset_pc_modules
\* a slip: the second capability test written as elif
ResetModuleElif(mod) ==
    IF mod.has_clear_errors THEN clear_errors(mod)
    ELSE IF mod.has_clear_energy THEN clear_energy(mod) ELSE mod

\* lines 39-42: whichever of the two operations the module exposes
ResetModule(mod) ==
    LET a == IF mod.has_clear_errors THEN clear_errors(mod) ELSE mod
    IN  IF a.has_clear_energy THEN clear_energy(a) ELSE a

reset_pc_modules(m) == [ i \in DOMAIN m |-> ResetModule(m[i]) ]

\* ------------------------------------------------------------ call history
\* What has been done to the model so far:
\*   log          the last two calls made on it, "F" a forward pass, "R" a reset
\*   fwd_on_clear every forward pass so far began on a cleared model
\*   batch_open   a training batch has started and no reset has followed it yet
\*   fwd_in_call  the running call has made a forward pass
Last2(s) == IF Len(s) <= 2 THEN s ELSE SubSeq(s, Len(s) - 1, Len(s))

ObsForward(o, m, in_batch) ==
    [ log |-> Last2(Append(o.log, "F")),
      fwd_on_clear |-> o.fwd_on_clear /\ ModelClear(m),
      batch_open |-> in_batch,
      fwd_in_call |-> TRUE ]

ObsReset(o) ==
    [ log |-> Last2(Append(o.log, "R")),
      fwd_on_clear |-> o.fwd_on_clear,
      batch_open |-> FALSE,
      fwd_in_call |-> o.fwd_in_call ]

ObsCall(o) == [o EXCEPT !.batch_open = FALSE, !.fwd_in_call = FALSE]

ObsInit ==
    [ log |-> <<>>, fwd_on_clear |-> TRUE, batch_open |-> FALSE,
      fwd_in_call |-> FALSE ]

\* ----------------------------------------------------------- generate_text
\* Python slices
LastN(s, n) == IF Len(s) <= n THEN s ELSE SubSeq(s, Len(s) - n + 1, Len(s))
From(s, k) == IF k >= Len(s) THEN <<>> ELSE SubSeq(s, k + 1, Len(s))

Prompts == UNION { [1..n -> Tokens] : n \in 1..MaxPrompt }

\* a slip: the window kept one token too long
TruncateOffByOne(input_tensor, block_size) ==
    IF Len(input_tensor) > block_size + 1
    THEN LastN(input_tensor, block_size + 1)
    ELSE input_tensor

\* lines 51-52: the sliding window, assigned back to input_tensor
Truncate(input_tensor, block_size) ==
    IF Len(input_tensor) > block_size
    THEN LastN(input_tensor, block_size)
    ELSE input_tensor

\* a slip: the EOS test never taken
EosNever(next_token, eos_token_id) == FALSE

\* line 61: next_token.item() == config.eos_token_id (never equal to None)
EosMatches(next_token, eos_token_id) == eos_token_id = Some(next_token)

GenIdle ==
    [ prompt |-> <<>>, max_new_tokens |-> 0, input_tensor |-> <<>>,
      step |-> 0, next_token |-> None, context |-> <<>>, sampled |-> <<>>,
      ret |-> <<>>, prompt_len |-> 0, generated_continuation |-> <<>> ]

\* ------------------------------------------------------------------- train
\* Python floats as exact fractions <<numerator, denominator>>
RECURSIVE GCD(_, _)
GCD(a, b) == IF b = 0 THEN a ELSE GCD(b, a % b)
Norm(n, d) == IF n = 0 THEN <<0, 1>> ELSE <<n \div GCD(n, d), d \div GCD(n, d)>>
Zero == Norm(0, 1)
FracAdd(x, y) == Norm(x[1] * y[2] + y[1] * x[2], x[2] * y[2])
\* x / k: None stands for ZeroDivisionError
PyDiv(x, k) == IF k = 0 THEN None ELSE Some(Norm(x[1], x[2] * k))
\* torch.exp, kept symbolic: exp(a) = exp(b) exactly when a = b
Exp(x) == [exp_of |-> x]

TrnIdle ==
    [ n_batches |-> 0, batch_idx |-> 0, total_energy |-> Zero,
      total_ce_loss |-> Zero, batch_count |-> 0, ce_loss |-> 0,
      layer_energies |-> <<>>, batch_energy |-> Zero,
      avg_energy |-> Zero, perplexity |-> Exp(Zero) ]

get_energy(mod) == mod.energy

RECURSIVE SeqSum(_)
SeqSum(s) == IF s = <<>> THEN 0 ELSE Head(s) + SeqSum(Tail(s))

\* a slip: "if energy:" in place of "if energy is not None:"
RECURSIVE CollectEnergiesTruthy(_)
CollectEnergiesTruthy(m) ==
    IF m = <<>> THEN <<>>
    ELSE LET mod == Head(m)
             rest == CollectEnergiesTruthy(Tail(m))
         IN  IF mod.isPCLayer /\ mod.has_get_energy
                /\ get_energy(mod) # None /\ get_energy(mod) # Some(0)
             THEN <<get_energy(mod)[1]>> \o rest
             ELSE rest

\* lines 34-39: the energies of the PCLayers that report one, in module order
RECURSIVE CollectEnergies(_)
CollectEnergies(m) ==
    IF m = <<>> THEN <<>>
    ELSE LET mod == Head(m)
             rest == CollectEnergies(Tail(m))
         IN  IF mod.isPCLayer /\ mod.has_get_energy /\ get_energy(mod) # None
             THEN <<get_energy(mod)[1]>> \o rest
             ELSE rest

\* line 45
BatchEnergy(ce_loss, layer_energies) ==
    IF layer_energies = <<>>
    THEN Norm(ce_loss, 1)
    ELSE Norm(SeqSum(layer_energies), Len(layer_energies))

\* a slip: the division left unguarded
AverageUnguarded(total, batch_count) == PyDiv(total, batch_count)

\* lines 54-55: total / batch_count if batch_count > 0 else 0.0
Average(total, batch_count) ==
    IF batch_count > 0 THEN PyDiv(total, batch_count) ELSE Some(Zero)

\* ----------------------------------------------------------------- actions
\* text_generation lines 89-91 and generate_text lines 47-48: the prompt is
\* encoded and becomes the working tensor
GenStart(input_ids, max_new_tokens) ==
    /\ pc = "idle"
    /\ pc' = "gen_loop"
    /\ gen' = [GenIdle EXCEPT !.prompt = input_ids,
                              !.max_new_tokens = max_new_tokens,
                              !.input_tensor = input_ids]
    /\ obs' = ObsCall(obs)
    /\ UNCHANGED <<config, model, trn, rst, ddp, proc>>

\* lines 50-58: one more iteration: truncate, forward pass, sample, append
GenStep(e, tok) ==
    /\ pc = "gen_loop"
    /\ gen.step < gen.max_new_tokens
    /\ LET t == Truncate(gen.input_tensor, config.block_size)
       IN  gen' = [gen EXCEPT !.context = t,
                              !.step = @ + 1,
                              !.next_token = Some(tok),
                              !.input_tensor = Append(t, tok),
                              !.sampled = Append(@, tok)]
    /\ model' = Forward(model, e)
    /\ obs' = ObsForward(obs, model, FALSE)
    /\ pc' = "gen_sampled"
    /\ UNCHANGED <<config, trn, rst, ddp, proc>>

\* line 54 (or the sampling after it) raising: nothing in the repository
\* catches, the exception ends generate_text and the process with it
GenStepFail(e) ==
    /\ pc = "gen_loop"
    /\ gen.step < gen.max_new_tokens
    /\ model' = Forward(model, e)
    /\ obs' = ObsForward(obs, model, FALSE)
    /\ gen' = GenIdle
    /\ pc' = "crashed"
    /\ UNCHANGED <<config, trn, rst, ddp, proc>>

\* a slip: the EOS break taken before the reset
GenResetAfterBreak ==
    /\ pc = "gen_sampled"
    /\ IF EosMatches(gen.next_token[1], config.eos_token_id)
       THEN /\ pc' = "gen_return"
            /\ UNCHANGED <<model, obs>>
       ELSE /\ pc' = "gen_loop"
            /\ model' = reset_pc_modules(model)
            /\ obs' = ObsReset(obs)
    /\ UNCHANGED <<config, gen, trn, rst, ddp, proc>>

\* lines 60-62: reset, then stop on EOS
GenReset ==
    /\ pc = "gen_sampled"
    /\ model' = reset_pc_modules(model)
    /\ obs' = ObsReset(obs)
    /\ pc' = IF EosMatches(gen.next_token[1], config.eos_token_id)
             THEN "gen_return" ELSE "gen_loop"
    /\ UNCHANGED <<config, gen, trn, rst, ddp, proc>>

\* line 50 exhausted
GenLoopEnd ==
    /\ pc = "gen_loop"
    /\ gen.step >= gen.max_new_tokens
    /\ pc' = "gen_return"
    /\ UNCHANGED <<config, model, gen, trn, obs, rst, ddp, proc>>

\* line 64, then text_generation lines 90-92: the caller slices the prompt off
GenReturn ==
    /\ pc = "gen_return"
    /\ gen' = [gen EXCEPT !.ret = gen.input_tensor,
                          !.prompt_len = Len(gen.prompt),
                          !.generated_continuation =
                              From(gen.input_tensor, Len(gen.prompt))]
    /\ pc' = "gen_done"
    /\ UNCHANGED <<config, model, trn, obs, rst, ddp, proc>>

\* text_generation lines 93-98: the strings are handed back, the locals go
GenFinish ==
    /\ pc = "gen_done"
    /\ pc' = "idle"
    /\ gen' = GenIdle
    /\ UNCHANGED <<config, model, trn, obs, rst, ddp, proc>>

\* lines 16-19
TrainStart(n_batches) ==
    /\ pc = "idle"
    /\ pc' = "trn_loop"
    /\ trn' = [TrnIdle EXCEPT !.n_batches = n_batches]
    /\ obs' = ObsCall(obs)
    /\ UNCHANGED <<config, model, gen, rst, ddp, proc>>

\* lines 21-47: forward pass, loss, layer energies, the running sums
TrainBatch(e, ce) ==
    /\ pc = "trn_loop"
    /\ trn.batch_idx < trn.n_batches
    /\ model' = Forward(model, e)
    /\ obs' = ObsForward(obs, model, TRUE)
    /\ LET les == CollectEnergies(model')
           be == BatchEnergy(ce, les)
       IN  trn' = [trn EXCEPT !.ce_loss = ce,
                              !.total_ce_loss = FracAdd(@, Norm(ce, 1)),
                              !.layer_energies = les,
                              !.batch_energy = be,
                              !.total_energy = FracAdd(@, be),
                              !.batch_count = @ + 1]
    /\ pc' = "trn_batch_done"
    /\ UNCHANGED <<config, gen, rst, ddp, proc>>

\* line 24, 26 or 37 raising: there is no try around the batch, the
\* exception leaves train at once and ends the process
TrainBatchFail(e) ==
    /\ pc = "trn_loop"
    /\ trn.batch_idx < trn.n_batches
    /\ model' = Forward(model, e)
    /\ obs' = ObsForward(obs, model, TRUE)
    /\ trn' = TrnIdle
    /\ pc' = "crashed"
    /\ UNCHANGED <<config, gen, rst, ddp, proc>>

\* a slip: the reset indented under the progress print of line 49
TrainResetEveryTenth ==
    /\ pc = "trn_batch_done"
    /\ IF (trn.batch_idx + 1) % 10 = 0
       THEN /\ model' = reset_pc_modules(model)
            /\ obs' = ObsReset(obs)
       ELSE UNCHANGED <<model, obs>>
    /\ trn' = [trn EXCEPT !.batch_idx = @ + 1]
    /\ pc' = "trn_loop"
    /\ UNCHANGED <<config, gen, rst, ddp, proc>>

\* line 52, and the loop moves to the next batch
TrainReset ==
    /\ pc = "trn_batch_done"
    /\ model' = reset_pc_modules(model)
    /\ obs' = ObsReset(obs)
    /\ trn' = [trn EXCEPT !.batch_idx = @ + 1]
    /\ pc' = "trn_loop"
    /\ UNCHANGED <<config, gen, rst, ddp, proc>>

\* lines 54-58: the loop is over, the averages are returned
TrainReturn ==
    /\ pc = "trn_loop"
    /\ trn.batch_idx >= trn.n_batches
    /\ LET avg_energy == Average(trn.total_energy, trn.batch_count)
           avg_ce_loss == Average(trn.total_ce_loss, trn.batch_count)
       IN  IF avg_energy = None \/ avg_ce_loss = None
           THEN /\ pc' = "crashed"
                /\ trn' = TrnIdle
           ELSE /\ pc' = "trn_done"
                /\ trn' = [trn EXCEPT !.avg_energy = avg_energy[1],
                                      !.perplexity = Exp(avg_ce_loss[1])]
    /\ UNCHANGED <<config, model, gen, obs, rst, ddp, proc>>

\* training.py lines 90-93: the epoch's numbers are recorded
TrainFinish ==
    /\ pc = "trn_done"
    /\ pc' = "idle"
    /\ trn' = TrnIdle
    /\ UNCHANGED <<config, model, gen, obs, rst, ddp, proc>>

\* ----------------------------------------- reset_pc_modules on its own
RstIdle == [ calls |-> 0, before |-> <<>>, after_one |-> <<>> ]

\* submodules exposing both, one or neither clear operation, in any state
ResetModules ==
    { Module(TRUE, TRUE, ce, cn, er, en) :
        ce \in BOOLEAN, cn \in BOOLEAN, er \in 0..1, en \in EnergyValues }

ResetTrees == UNION { [1..n -> ResetModules] : n \in 1..MaxModules }

\* one call reset_pc_modules(model)
ResetCall ==
    /\ pc = "reset_only"
    /\ rst.calls < MaxResetCalls
    /\ model' = reset_pc_modules(model)
    /\ rst' = [rst EXCEPT !.calls = @ + 1,
                          !.after_one = IF rst.calls = 0 THEN model' ELSE @]
    /\ UNCHANGED <<config, pc, gen, trn, obs, ddp, proc>>

\* ------------------------------------------- generate_text.py main, per process
DdpIdle == [ use_ddp |-> FALSE, world |-> 1, node_size |-> 1 ]
ProcIdle == <<>>

Ranks == 0..(MaxWorld - 1)
World == 0..(ddp.world - 1)

\* one process of the launch: rank is dist.get_rank(), local_rank its index
\* on its node; initialized is dist.is_initialized()
Process(rank, local_rank, initialized) ==
    [ at |-> "start", rank |-> rank, local_rank |-> local_rank,
      initialized |-> initialized, work |-> 0,
      generated |-> FALSE, metrics |-> FALSE,
      arrived |-> FALSE, destroyed |-> FALSE ]

\* a slip: the leader picked by its index on the node
IsLeaderByLocalRank(p) == ~p.initialized \/ p.local_rank = 0

\* line 167: not dist.is_initialized() or dist.get_rank() == 0
IsLeader(p) == ~p.initialized \/ p.rank = 0

\* line 178: dist.barrier() returns once every process of the group is in it
BarrierOpen == \A q \in World : proc[q].arrived

\* lines 129-165: arguments, process group, tokenizer, config, model
MainSetup(r) ==
    /\ r \in DOMAIN proc
    /\ proc[r].at = "start"
    /\ proc' = [proc EXCEPT ![r].at = "gate",
                            ![r].initialized = @ \/ ddp.use_ddp]
    /\ UNCHANGED <<config, model, pc, gen, trn, obs, rst, ddp>>

\* line 167 taken: text_generation starts
MainEnter(r, work) ==
    /\ r \in DOMAIN proc
    /\ proc[r].at = "gate"
    /\ IsLeader(proc[r])
    /\ proc' = [proc EXCEPT ![r].at = "generating", ![r].work = work,
                            ![r].generated = TRUE]
    /\ UNCHANGED <<config, model, pc, gen, trn, obs, rst, ddp>>

\* line 167 not taken: generation and metrics are skipped
MainSkip(r) ==
    /\ r \in DOMAIN proc
    /\ proc[r].at = "gate"
    /\ ~IsLeader(proc[r])
    /\ proc' = [proc EXCEPT ![r].at = "teardown"]
    /\ UNCHANGED <<config, model, pc, gen, trn, obs, rst, ddp>>

\* lines 168-173: text_generation at work
MainGenerate(r) ==
    /\ r \in DOMAIN proc
    /\ proc[r].at = "generating"
    /\ proc[r].work > 0
    /\ proc' = [proc EXCEPT ![r].work = @ - 1]
    /\ UNCHANGED <<config, model, pc, gen, trn, obs, rst, ddp>>

\* lines 174-175: text_generation has returned; the metrics are computed
\* when it returned strings and this is the first process of its node
MainMetrics(r, has_output) ==
    /\ r \in DOMAIN proc
    /\ proc[r].at = "generating"
    /\ proc[r].work = 0
    /\ proc' = [proc EXCEPT ![r].at = "teardown",
                            ![r].metrics = has_output /\ proc[r].local_rank = 0]
    /\ UNCHANGED <<config, model, pc, gen, trn, obs, rst, ddp>>

\* lines 177-178: the process enters the barrier, or has none to enter
MainTeardown(r) ==
    /\ r \in DOMAIN proc
    /\ proc[r].at = "teardown"
    /\ IF ddp.use_ddp /\ proc[r].initialized
       THEN proc' = [proc EXCEPT ![r].at = "barrier", ![r].arrived = TRUE]
       ELSE proc' = [proc EXCEPT ![r].at = "exit"]
    /\ UNCHANGED <<config, model, pc, gen, trn, obs, rst, ddp>>

\* lines 178-179: the barrier lets the process go, the group is destroyed
MainDestroy(r) ==
    /\ r \in DOMAIN proc
    /\ proc[r].at = "barrier"
    /\ BarrierOpen
    /\ proc' = [proc EXCEPT ![r].at = "exit", ![r].destroyed = TRUE,
                            ![r].initialized = FALSE]
    /\ UNCHANGED <<config, model, pc, gen, trn, obs, rst, ddp>>

ProcStep(r) ==
    \/ MainSetup(r)
    \/ \E work \in 0..MaxGenWork : MainEnter(r, work)
    \/ MainSkip(r)
    \/ MainGenerate(r)
    \/ \E has_output \in BOOLEAN : MainMetrics(r, has_output)
    \/ MainTeardown(r)
    \/ MainDestroy(r)

\* ---------------------------------------------------------- specifications
Init ==
    /\ config \in Configs
    /\ model \in ModelTrees
    /\ pc = "idle"
    /\ gen = GenIdle
    /\ trn = TrnIdle
    /\ obs = ObsInit
    /\ rst = RstIdle
    /\ ddp = DdpIdle
    /\ proc = ProcIdle

Next ==
    \/ \E p \in Prompts, n \in 0..MaxNewTokens : GenStart(p, n)
    \/ \E e \in ForwardOutcomes(model), tok \in Tokens : GenStep(e, tok)
    \/ \E e \in ForwardOutcomes(model) : GenStepFail(e)
    \/ GenReset
    \/ GenLoopEnd
    \/ GenReturn
    \/ GenFinish
    \/ \E n \in 0..MaxBatches : TrainStart(n)
    \/ \E e \in ForwardOutcomes(model), ce \in 0..MaxLoss : TrainBatch(e, ce)
    \/ \E e \in ForwardOutcomes(model) : TrainBatchFail(e)
    \/ TrainReset
    \/ TrainReturn
    \/ TrainFinish

Spec == Init /\ [][Next]_vars

\* reset_pc_modules applied to any small tree in any state
InitReset ==
    /\ config = GPTConfig(1, None)
    /\ model \in ResetTrees
    /\ pc = "reset_only"
    /\ gen = GenIdle
    /\ trn = TrnIdle
    /\ obs = ObsInit
    /\ rst = [ calls |-> 0, before |-> model, after_one |-> model ]
    /\ ddp = DdpIdle
    /\ proc = ProcIdle

NextReset == ResetCall

SpecReset == InitReset /\ [][NextReset]_vars

\* the generation script launched as one plain process, or under torchrun as
\* `world` processes on nodes of `node_size` processes each
InitDist ==
    /\ config = GPTConfig(1, None)
    /\ model = <<PlainModule>>
    /\ pc = "main"
    /\ gen = GenIdle
    /\ trn = TrnIdle
    /\ obs = ObsInit
    /\ rst = RstIdle
    /\ \E use_ddp \in BOOLEAN, world \in 1..MaxWorld, node_size \in 1..MaxWorld :
          /\ node_size <= world
          /\ ~use_ddp => world = 1
          /\ ddp = [ use_ddp |-> use_ddp, world |-> world,
                     node_size |-> node_size ]
          /\ \E pre \in BOOLEAN :
                /\ pre => use_ddp
                /\ proc = [ r \in 0..(world - 1) |->
                              Process(r, r % node_size, pre) ]

NextDist == \E r \in Ranks : ProcStep(r)

\* every process is an operating-system process of its own and keeps running
SpecDist ==
    InitDist /\ [][NextDist]_vars /\ \A r \in Ranks : WF_vars(ProcStep(r))

\* ------------------------------------------------------------------ claims
ButLast(s) == IF s = <<>> THEN <<>> ELSE SubSeq(s, 1, Len(s) - 1)

\* the steps at which the configured EOS token was sampled
EosSteps == { j \in 1..Len(gen.sampled) : config.eos_token_id = <<gen.sampled[j]>> }

Min(S) == CHOOSE x \in S : \A y \in S : x <= y

RECURSIVE SumOver(_, _)
SumOver(m, I) ==
    IF I = {} THEN 0
    ELSE LET i == CHOOSE x \in I : TRUE
         IN  m[i].energy[1] + SumOver(m, I \ {i})

\* C1: generate_text returns a sequence of length prompt_length + k with
\* 0 <= k <= max_new_tokens, and k < max_new_tokens only if the EOS token
\* was sampled at a step strictly before step max_new_tokens.
C1_ReturnedLength ==
    pc = "gen_done" =>
        \E k \in 0..gen.max_new_tokens :
            /\ Len(gen.ret) = Len(gen.prompt) + k
            /\ k < gen.max_new_tokens =>
                   \E j \in EosSteps : j < gen.max_new_tokens

\* C2: the returned sequence is the unchanged prompt followed by every
\* sampled token in sampling order, so the caller's slice
\* generated_ids[prompt_len:] is exactly the list of sampled tokens.
C2_FullHistory ==
    pc = "gen_done" =>
        /\ gen.ret = gen.prompt \o gen.sampled
        /\ gen.generated_continuation = gen.sampled

\* C3: every forward pass of generate_text runs on at most block_size tokens,
\* and when the tokens produced before it (prompt plus sampled) exceed
\* block_size it runs on exactly the most recent block_size of them.
C3_ContextWindow ==
    pc = "gen_sampled" =>
        LET produced == gen.prompt \o ButLast(gen.sampled)
            b == config.block_size
        IN  /\ Len(gen.context) <= b
            /\ Len(produced) > b =>
                   /\ Len(gen.context) = b
                   /\ \A i \in 1..b :
                          gen.context[i] = produced[Len(produced) - b + i]

C3_Witness ==
    /\ pc = "gen_sampled"
    /\ gen.step = 2
    /\ Len(gen.prompt) > config.block_size
    /\ config.block_size = 2
    /\ gen.sampled[1] # gen.prompt[Len(gen.prompt)]

\* C4: over any sequence of generate_text and train calls, forward passes
\* and resets strictly alternate: every forward pass starts on a cleared
\* model, exactly one reset follows each forward pass before the next one,
\* and the model is clear whenever generate_text or train returns.
C4_ForwardResetAlternate ==
    /\ obs.fwd_on_clear
    /\ obs.log \notin { <<"F", "F">>, <<"R", "R">>, <<"R">> }
    /\ pc \in { "idle", "gen_loop", "gen_return", "gen_done",
                "trn_loop", "trn_done" } =>
           /\ ModelClear(model)
           /\ obs.log \in { <<>>, <<"F", "R">> }
    /\ pc \in { "gen_sampled", "trn_batch_done" } =>
           obs.log \in { <<"F">>, <<"R", "F">> }

C4_Witness ==
    /\ pc = "trn_batch_done"
    /\ trn.batch_idx = 0
    /\ obs.log = <<"R", "F">>
    /\ ~ModelClear(model)

\* C5: if the token sampled at step j is the first one equal to the
\* configured eos_token_id, exactly j steps run and that token ends the
\* returned sequence; if none is, or eos_token_id is None, exactly
\* max_new_tokens steps run.
C5_StepsDecidedByEos ==
    pc = "gen_done" =>
        IF EosSteps # {}
        THEN /\ gen.step = Min(EosSteps)
             /\ Len(gen.sampled) = Min(EosSteps)
             /\ gen.ret # <<>>
             /\ config.eos_token_id = <<gen.ret[Len(gen.ret)]>>
        ELSE /\ gen.step = gen.max_new_tokens
             /\ Len(gen.sampled) = gen.max_new_tokens

C5_Witness ==
    /\ pc = "gen_done"
    /\ gen.max_new_tokens = 2
    /\ gen.step = 1
    /\ config.eos_token_id = <<gen.sampled[1]>>

\* C6: reset_pc_modules never fails and is idempotent: after a call every
\* exposed error and energy state is cleared and everything else is as it
\* was, and a second call leaves the state of the first.
C6_ResetIdempotentTotal ==
    /\ (pc = "reset_only" /\ rst.calls < MaxResetCalls) => ENABLED ResetCall
    /\ rst.calls >= 1 =>
        /\ DOMAIN model = DOMAIN rst.before
        /\ \A i \in DOMAIN model :
              LET b == rst.before[i]
                  a == model[i]
              IN  /\ a.errors = IF b.has_clear_errors THEN 0 ELSE b.errors
                  /\ a.energy = IF b.has_clear_energy THEN <<>> ELSE b.energy
                  /\ [a EXCEPT !.errors = 0, !.energy = <<>>]
                        = [b EXCEPT !.errors = 0, !.energy = <<>>]
    /\ rst.calls >= 2 => model = rst.after_one

C6_Witness ==
    /\ rst.calls = 2
    /\ \E i \in DOMAIN rst.before :
          /\ rst.before[i].has_clear_errors /\ rst.before[i].has_clear_energy
          /\ rst.before[i].errors = 1 /\ rst.before[i].energy # <<>>
    /\ \E i \in DOMAIN rst.before :
          /\ ~rst.before[i].has_clear_errors /\ rst.before[i].has_clear_energy
          /\ rst.before[i].errors = 1 /\ rst.before[i].energy # <<>>

\* C7: the batch energy train adds to the epoch total is the arithmetic mean
\* of the energies of exactly the PCLayers whose get_energy() returned a
\* value, and the batch's cross-entropy loss when no layer returned one.
C7_BatchEnergy ==
    [][ pc' = "trn_batch_done" =>
          LET m == model'
              I == { i \in DOMAIN m : /\ m[i].isPCLayer
                                      /\ m[i].has_get_energy
                                      /\ m[i].energy # <<>> }
              be == trn'.batch_energy
              was == trn.total_energy
              now == trn'.total_energy
          IN  /\ be[2] > 0
              /\ IF I = {}
                 THEN be[1] = trn'.ce_loss * be[2]
                 ELSE be[1] * Cardinality(I) = SumOver(m, I) * be[2]
              /\ now[1] * (was[2] * be[2])
                    = (was[1] * be[2] + be[1] * was[2]) * now[2] ]_vars

C7_Witness ==
    /\ pc = "trn_batch_done"
    /\ trn.batch_count = 2
    /\ Len(model) = 3
    /\ model[2].energy = <<0>>
    /\ model[3].energy = <<1>>
    /\ trn.batch_energy = <<1, 2>>

\* C8: train on a dataloader of zero batches returns without error, without
\* a forward pass and without dividing by zero: average energy 0.0 and
\* perplexity exp(0.0) = 1.0.
C8_EmptyDataloader ==
    [][ (pc = "trn_loop" /\ trn.n_batches = 0) =>
          /\ pc' = "trn_done"
          /\ trn'.avg_energy = <<0, 1>>
          /\ trn'.perplexity = [exp_of |-> <<0, 1>>]
          /\ ~obs'.fwd_in_call
          /\ model' = model ]_vars

C8_Witness ==
    /\ pc = "trn_done"
    /\ trn.n_batches = 0
    /\ trn.batch_count = 0
    /\ trn.avg_energy = <<0, 1>>

====
